---- MODULE Spec2Model ----
(***************************************************************************)
(* Model of scripts/statistics.py: collect (three recursive grep searches  *)
(* whose failures are swallowed), pick_colour (the badge colour tiers) and *)
(* main (badge URL, HTTP GET, dump of the response into admitted.svg).     *)
(*                                                                         *)
(* One run of main is a straight line of steps; the program counter pc     *)
(* names the next statement.  The working directory's admitted.svg         *)
(* survives from one run to the next, everything else is local to a run.   *)
(***************************************************************************)
EXTENDS Integers, Sequences, FiniteSets, TLC

\* Bounds of the model.
MaxLines == 10      \* most lines a grep for Admitted / Theorem|Lemma|Remark prints
MaxQedLines == 2    \* most lines the grep for Qed|Defined prints
MaxBody == 2        \* longest HTTP response body, in bytes

\* Two distinct byte values are enough to tell bodies apart.
Byte == {0, 1}

VARIABLES
    pc,           \* next statement of main / collect
    res,          \* what each of the three check_output calls did this run
    n_admitted,   \* collect's locals / main's locals
    n_theorems,
    n_qed,
    colour,
    url,
    requested,    \* URLs handed to urlopen during this run, in order
    resp,         \* r.read()
    file,         \* admitted.svg in the working directory
    fileAtStart,  \* admitted.svg as the run found it
    fault,        \* "none", or the statement whose exception ended the run
    exitCode

vars == <<pc, res, n_admitted, n_theorems, n_qed, colour, url, requested,
          resp, file, fileAtStart, fault, exitCode>>

----------------------------------------------------------------------------
\* The environment

\* A byte string of at most MaxBody bytes.
Bodies == UNION {[1..k -> Byte] : k \in 0..MaxBody}

\* What subprocess.check_output can do: return the output of a grep that
\* exited 0 (so it printed at least one line), or raise (grep exited non-zero
\* -- 1 for no match, 2 for an error even when lines were printed -- or could
\* not be started at all).  lines is the number of lines grep printed.
SearchResults(max) ==
    [raised : {FALSE}, lines : 1..max] \cup [raised : {TRUE}, lines : 0..max]

NoSearch == [raised |-> FALSE, lines |-> 0]

NoFile == [exists |-> FALSE, data |-> <<>>]

----------------------------------------------------------------------------
\* Pure functions

\* try: n = len(check_output(...).splitlines())  except: n = 0
CountKeepsOutput(o) == o.lines
Count(o) == IF o.raised THEN 0 ELSE o.lines

\* n > 0.2 * m and n > 0.1 * m on a non-negative int n and m.  The doubles 0.2
\* and 0.1 times an int below 2^53 round to within half an ulp of m/5 and
\* m/10, and to exactly m/5 and m/10 when those are integers, so against an
\* int n the comparisons are the exact ones, written here in tenths.
GtFifth(n, m) == 10 * n > 2 * m
GtTenth(n, m) == 10 * n > 1 * m

pick_colour_ge_fifth(n, m) ==
    IF 10 * n >= 2 * m THEN "red"
    ELSE IF GtTenth(n, m) THEN "orange"
    ELSE IF n = 0 THEN "brightgreen"
    ELSE "yellow"
pick_colour_ge_tenth(n, m) ==
    IF GtFifth(n, m) THEN "red"
    ELSE IF 10 * n >= 1 * m THEN "orange"
    ELSE IF n = 0 THEN "brightgreen"
    ELSE "yellow"
pick_colour_zero_guard(n, m) ==
    IF m # 0 /\ GtFifth(n, m) THEN "red"
    ELSE IF m # 0 /\ GtTenth(n, m) THEN "orange"
    ELSE IF n = 0 THEN "brightgreen"
    ELSE "yellow"
pick_colour_tenth_first(n, m) ==
    IF GtTenth(n, m) THEN "orange"
    ELSE IF GtFifth(n, m) THEN "red"
    ELSE IF n = 0 THEN "brightgreen"
    ELSE "yellow"
pick_colour_yellow_orange(n, m) ==
    IF GtFifth(n, m) THEN "red"
    ELSE IF GtTenth(n, m) THEN "yellow"
    ELSE IF n = 0 THEN "brightgreen"
    ELSE "orange"
pick_colour(n, m) ==
    IF GtFifth(n, m) THEN "red"
    ELSE IF GtTenth(n, m) THEN "orange"
    ELSE IF n = 0 THEN "brightgreen"
    ELSE "yellow"

\* str(n) for n >= 0: the decimal digits, most significant first.
Digit(d) ==
    CASE d = 0 -> "0" [] d = 1 -> "1" [] d = 2 -> "2" [] d = 3 -> "3"
      [] d = 4 -> "4" [] d = 5 -> "5" [] d = 6 -> "6" [] d = 7 -> "7"
      [] d = 8 -> "8" [] d = 9 -> "9"

RECURSIVE Str(_)
Str(n) == IF n < 10 THEN Digit(n) ELSE Str(n \div 10) \o Digit(n % 10)

\* "https://img.shields.io/badge/admitted%20proofs-{}-{}?style=flat".format(a, c)
BadgeUrl(a, c) ==
    "https://img.shields.io/badge/admitted%20proofs-" \o a \o "-" \o c
        \o "?style=flat"

----------------------------------------------------------------------------
\* The run

Init ==
    /\ pc = "admitted"
    /\ res = [admitted |-> NoSearch, theorems |-> NoSearch, qed |-> NoSearch]
    /\ n_admitted = 0
    /\ n_theorems = 0
    /\ n_qed = 0
    /\ colour = ""
    /\ url = ""
    /\ requested = <<>>
    /\ resp = <<>>
    /\ file = NoFile
    /\ fileAtStart = NoFile
    /\ fault = "none"
    /\ exitCode = 0

\* collect, first search: grep -r -E Admitted d
SearchAdmitted ==
    /\ pc = "admitted"
    /\ \E o \in SearchResults(MaxLines) :
          /\ res' = [res EXCEPT !.admitted = o]
          /\ n_admitted' = Count(o)
    /\ pc' = "theorems"
    /\ UNCHANGED <<n_theorems, n_qed, colour, url, requested, resp, file,
                   fileAtStart, fault, exitCode>>

\* collect, second search: grep -r -E Theorem|Lemma|Remark d
SearchTheorems ==
    /\ pc = "theorems"
    /\ \E o \in SearchResults(MaxLines) :
          /\ res' = [res EXCEPT !.theorems = o]
          /\ n_theorems' = Count(o)
    /\ pc' = "qed"
    /\ UNCHANGED <<n_admitted, n_qed, colour, url, requested, resp, file,
                   fileAtStart, fault, exitCode>>

\* collect, third search: grep -r -E Qed|Defined d; then return the triple
SearchQed ==
    /\ pc = "qed"
    /\ \E o \in SearchResults(MaxQedLines) :
          /\ res' = [res EXCEPT !.qed = o]
          /\ n_qed' = Count(o)
    /\ pc' = "colour"
    /\ UNCHANGED <<n_admitted, n_theorems, colour, url, requested, resp, file,
                   fileAtStart, fault, exitCode>>

\* colour = pick_colour(n_admitted, n_theorems)
PickColour ==
    /\ pc = "colour"
    /\ colour' = pick_colour(n_admitted, n_theorems)
    /\ pc' = "url"
    /\ UNCHANGED <<res, n_admitted, n_theorems, n_qed, url, requested, resp,
                   file, fileAtStart, fault, exitCode>>

\* url = "...".format(str(n_admitted), colour); req = Request(url, ...)
BuildUrlFromTheorems ==
    /\ pc = "url"
    /\ url' = BadgeUrl(Str(n_theorems), colour)
    /\ pc' = "open"
    /\ UNCHANGED <<res, n_admitted, n_theorems, n_qed, colour, requested, resp,
                   file, fileAtStart, fault, exitCode>>
BuildUrl ==
    /\ pc = "url"
    /\ url' = BadgeUrl(Str(n_admitted), colour)
    /\ pc' = "open"
    /\ UNCHANGED <<res, n_admitted, n_theorems, n_qed, colour, requested, resp,
                   file, fileAtStart, fault, exitCode>>

\* open("admitted.svg", "wb"): the file is created, or cut to length 0
OpenFileAppend ==
    /\ pc = "open"
    /\ file' = [exists |-> TRUE, data |-> file.data]
    /\ pc' = "get"
    /\ UNCHANGED <<res, n_admitted, n_theorems, n_qed, colour, url, requested,
                   resp, fileAtStart, fault, exitCode>>
OpenFile ==
    /\ pc = "open"
    /\ file' = [exists |-> TRUE, data |-> <<>>]
    /\ pc' = "get"
    /\ UNCHANGED <<res, n_admitted, n_theorems, n_qed, colour, url, requested,
                   resp, fileAtStart, fault, exitCode>>

\* open raises (no permission, read-only directory): nothing catches it
OpenFail ==
    /\ pc = "open"
    /\ fault' = "open"
    /\ exitCode' = 1
    /\ pc' = "exit"
    /\ UNCHANGED <<res, n_admitted, n_theorems, n_qed, colour, url, requested,
                   resp, file, fileAtStart>>

\* urlopen(req) and r.read() succeed
GetOk ==
    /\ pc = "get"
    /\ requested' = Append(requested, url)
    /\ \E b \in Bodies : resp' = b
    /\ pc' = "write"
    /\ UNCHANGED <<res, n_admitted, n_theorems, n_qed, colour, url, file,
                   fileAtStart, fault, exitCode>>

\* urlopen(req) or r.read() raises: both with-blocks unwind, f is closed with
\* nothing written, the exception leaves main
GetFailRetry ==
    /\ pc = "get"
    /\ requested' = Append(requested, url)
    /\ pc' = IF Len(requested) = 0 THEN "get" ELSE "exit"
    /\ fault' = IF Len(requested) = 0 THEN fault ELSE "get"
    /\ exitCode' = IF Len(requested) = 0 THEN exitCode ELSE 1
    /\ UNCHANGED <<res, n_admitted, n_theorems, n_qed, colour, url, resp, file,
                   fileAtStart>>
GetFail ==
    /\ pc = "get"
    /\ requested' = Append(requested, url)
    /\ fault' = "get"
    /\ exitCode' = 1
    /\ pc' = "exit"
    /\ UNCHANGED <<res, n_admitted, n_theorems, n_qed, colour, url, resp, file,
                   fileAtStart>>

\* f.write(r.read()) at offset 0 of the opened file, then both with-blocks
\* close and main returns
WriteBodyDropsLast ==
    /\ pc = "write"
    /\ file' = [exists |-> TRUE,
                data |-> file.data \o SubSeq(resp, 1, Len(resp) - 1)]
    /\ pc' = "exit"
    /\ UNCHANGED <<res, n_admitted, n_theorems, n_qed, colour, url, requested,
                   resp, fileAtStart, fault, exitCode>>
WriteBody ==
    /\ pc = "write"
    /\ file' = [exists |-> TRUE, data |-> file.data \o resp]
    /\ pc' = "exit"
    /\ UNCHANGED <<res, n_admitted, n_theorems, n_qed, colour, url, requested,
                   resp, fileAtStart, fault, exitCode>>

\* The script is started again in the same working directory.
Rerun ==
    /\ pc = "exit"
    /\ pc' = "admitted"
    /\ res' = [admitted |-> NoSearch, theorems |-> NoSearch, qed |-> NoSearch]
    /\ n_admitted' = 0
    /\ n_theorems' = 0
    /\ n_qed' = 0
    /\ colour' = ""
    /\ url' = ""
    /\ requested' = <<>>
    /\ resp' = <<>>
    /\ fileAtStart' = file
    /\ fault' = "none"
    /\ exitCode' = 0
    /\ UNCHANGED file

Next ==
    \/ SearchAdmitted
    \/ SearchTheorems
    \/ SearchQed
    \/ PickColour
    \/ BuildUrl
    \/ OpenFile
    \/ OpenFail
    \/ GetOk
    \/ GetFail
    \/ WriteBody
    \/ Rerun

Spec == Init /\ [][Next]_vars

----------------------------------------------------------------------------
\* Properties

\* pick_colour has been applied to this run's counts.
Picked == pc \in {"url", "open", "get", "write", "exit"}

\* collect has returned.
Collected == pc \notin {"admitted", "theorems", "qed"}

\* C1: with an admitted count of 0 the colour is brightgreen, whatever the
\* theorem count is, 0 included.
C1_ZeroAdmittedBrightgreen ==
    (Picked /\ n_admitted = 0) => colour = "brightgreen"

C1_Witness == Picked /\ n_admitted = 0 /\ n_theorems = 0 /\ colour = "brightgreen"

\* C2 as stated: with a theorem count of 0 and an admitted count above 0 the
\* colour is yellow.
C2_ZeroTheoremsYellow ==
    (Picked /\ n_theorems = 0 /\ n_admitted > 0) => colour = "yellow"

\* C2 amended: with a theorem count of 0 and an admitted count above 0 the
\* first branch is taken (n > 0.0) and the colour is red.
C2_ZeroTheoremsRed ==
    (Picked /\ n_theorems = 0 /\ n_admitted > 0) => colour = "red"

C2_Witness == Picked /\ n_theorems = 0 /\ n_admitted > 0 /\ colour = "red"

\* C3: with m > 0 theorems and more than a fifth of m admitted (5n > m) the
\* colour is red.
C3_AboveFifthRed ==
    (Picked /\ n_theorems > 0 /\ 5 * n_admitted > n_theorems) => colour = "red"

C3_Witness == Picked /\ n_admitted = 5 /\ n_theorems = 10 /\ colour = "red"

\* C4: with m > 0 theorems and an admitted count above a tenth and at most a
\* fifth of m (10n > m, 5n <= m) the colour is orange; n = m/5 is orange.
C4_TenthToFifthOrange ==
    (Picked /\ n_theorems > 0 /\ 10 * n_admitted > n_theorems
            /\ 5 * n_admitted <= n_theorems) => colour = "orange"

C4_Witness ==
    Picked /\ n_theorems > 0 /\ 5 * n_admitted = n_theorems /\ colour = "orange"

\* C5: with m > 0 theorems and an admitted count of at least 1 and at most a
\* tenth of m (10n <= m) the colour is yellow; n = m/10 is yellow.
C5_UpToTenthYellow ==
    (Picked /\ n_theorems > 0 /\ n_admitted >= 1
            /\ 10 * n_admitted <= n_theorems) => colour = "yellow"

C5_Witness ==
    Picked /\ n_admitted >= 1 /\ 10 * n_admitted = n_theorems /\ colour = "yellow"

\* C6: collect never raises; a search that raised counts 0, a search that
\* returned counts its own lines, each independently of the other two; three
\* raising searches give (0, 0, 0).
C6_CollectNeverFails ==
    /\ pc \in {"theorems", "qed", "colour"} => fault = "none" /\ exitCode = 0
    /\ pc # "admitted" =>
          n_admitted = (IF res.admitted.raised THEN 0 ELSE res.admitted.lines)
    /\ pc \notin {"admitted", "theorems"} =>
          n_theorems = (IF res.theorems.raised THEN 0 ELSE res.theorems.lines)
    /\ Collected =>
          n_qed = (IF res.qed.raised THEN 0 ELSE res.qed.lines)
    /\ (Collected /\ res.admitted.raised /\ res.theorems.raised /\ res.qed.raised)
          => <<n_admitted, n_theorems, n_qed>> = <<0, 0, 0>>

C6_Witness ==
    /\ pc = "colour"
    /\ res.admitted.raised /\ res.admitted.lines > 0 /\ n_admitted = 0
    /\ ~res.theorems.raised /\ n_theorems = MaxLines
    /\ ~res.qed.raised /\ n_qed = 1

\* C7: every URL requested is the badge URL of the admitted count and of
\* pick_colour(admitted, theorems), whatever the Qed count; when all three
\* searches find nothing it is the admitted%20proofs-0-brightgreen URL.
C7_RequestedUrl ==
    \A i \in 1..Len(requested) :
        /\ requested[i] =
              "https://img.shields.io/badge/admitted%20proofs-"
                 \o Str(n_admitted) \o "-"
                 \o pick_colour(n_admitted, n_theorems) \o "?style=flat"
        /\ (res.admitted.raised /\ res.theorems.raised /\ res.qed.raised) =>
              requested[i] =
                 "https://img.shields.io/badge/admitted%20proofs-0-brightgreen?style=flat"

C7_Witness ==
    /\ Len(requested) = 1
    /\ res.admitted.raised /\ res.theorems.raised /\ res.qed.raised
    /\ requested[1] =
          "https://img.shields.io/badge/admitted%20proofs-0-brightgreen?style=flat"

\* C8: when the run has ended and its GET succeeded, admitted.svg holds
\* exactly the response body, whatever it held before the run.
C8_FileIsBody ==
    (pc = "exit" /\ Len(requested) = 1 /\ fault # "get") =>
        file = [exists |-> TRUE, data |-> resp]

C8_Witness ==
    /\ pc = "exit" /\ Len(requested) = 1 /\ fault = "none"
    /\ fileAtStart.exists /\ Len(fileAtStart.data) > Len(resp) /\ Len(resp) > 0
    /\ file.data = resp

\* C9: a run issues at most one GET; a failed GET ends the run with a
\* non-zero exit and no response byte written; a run ends in a fault only
\* through the GET or the open, never through a search that raised.
C9_OneGetNoRetry ==
    /\ Len(requested) <= 1
    /\ fault = "get" =>
          pc = "exit" /\ exitCode # 0 /\ Len(requested) = 1 /\ file.data = <<>>
    /\ (pc = "exit" /\ exitCode # 0) => fault \in {"open", "get"}
    /\ (pc = "exit" /\ fault = "none") => exitCode = 0

C9_Witness ==
    /\ pc = "exit" /\ fault = "get" /\ exitCode # 0 /\ Len(requested) = 1
    /\ res.admitted.raised /\ res.theorems.raised /\ res.qed.raised

\* C10: when the GET is about to be issued admitted.svg has already been
\* created or cut to empty; after a run whose GET failed the file exists and
\* is empty, so an earlier badge is gone.
C10_TruncatedBeforeGet ==
    /\ pc = "get" => file = [exists |-> TRUE, data |-> <<>>] /\ requested = <<>>
    /\ requested # <<>> => file.exists
    /\ (pc = "exit" /\ fault = "get") => file = [exists |-> TRUE, data |-> <<>>]

C10_Witness ==
    /\ pc = "exit" /\ fault = "get"
    /\ fileAtStart.exists /\ fileAtStart.data # <<>>
    /\ file = [exists |-> TRUE, data |-> <<>>]

====
